---- MODULE Spec2Model ----
(***************************************************************************)
(* Model of the PID fan controller daemon (src/src/main.rs).               *)
(*                                                                         *)
(* The state is the state of main: the cancellation flag SHOULD_EXIT, the  *)
(* two HoldEcFanControl leases, the two temperature histories, the         *)
(* last/next fan speeds, the gains of the cycle in flight, and main's      *)
(* position.  The embedded controller is a byte-addressable register file  *)
(* (ec) together with the log of every write issued to it (ec_log).        *)
(*                                                                         *)
(* f64 values are modelled as an exact fraction (val = num/den) together   *)
(* with the sign of the accumulated rounding error (err): the rounding     *)
(* error of the few operations involved is many orders of magnitude below  *)
(* the distance between two distinct exact gains, so it can change the     *)
(* outcome of a comparison "gain < threshold" only when the exact value    *)
(* equals the threshold.                                                   *)
(***************************************************************************)
EXTENDS Integers, Sequences, FiniteSets, TLC

(***************************************************************************)
(* Bounds of the model.                                                    *)
(***************************************************************************)
\* cycles of the control loop a run may start
MaxCycles == 12
\* the sensors report a new temperature only during the first VariedCycles
\* cycles; afterwards each sensor repeats its last reading (or fails)
VariedCycles == 2
\* gains handed to the mappers range over k/2 for k in -MapGainSpan..140+MapGainSpan
MapGainSpan == 20
\* milli-degree tokens handed to the parser spell 1000 * t + r for t in 0..MilliMaxDegrees
MilliMaxDegrees == 300

(***************************************************************************)
(* Program constants (main.rs 14-26, 80-94).                               *)
(***************************************************************************)
POLLING_INTERVAL == 5000

GPU_CONTROL_REGISTER == 137
GPU_ACQUIRE_CONTROL == 4
GPU_RELEASE_CONTROL == 18
GPU_SPEED_CONTROL_REGISTER == 183

CPU_CONTROL_REGISTER == 244
CPU_ACQUIRE_CONTROL == 2
CPU_RELEASE_CONTROL == 0
CPU_SPEED_CONTROL_REGISTER == 244

CPU_FAN_SPEED_COMMANDS ==
  [pc_0 |-> 9, pc_25 |-> 10, pc_50 |-> 61, pc_75 |-> 66, pc_100 |-> 71]

GPU_FAN_SPEED_COMMANDS ==
  [pc_0 |-> 56, pc_25 |-> 64, pc_50 |-> 72, pc_75 |-> 80, pc_100 |-> 88]

\* a window one slot too large
HistoryCapacityOffByOne == 10 + 1

\* CircularQueue::with_capacity(10)
HistoryCapacity == 10

\* target temperature handed to pid_controller by main
TargetTemperature == 60

Registers ==
  {GPU_CONTROL_REGISTER, GPU_SPEED_CONTROL_REGISTER,
   CPU_CONTROL_REGISTER, CPU_SPEED_CONTROL_REGISTER}

(***************************************************************************)
(* Exact fractions num/den with a positive denominator.                    *)
(***************************************************************************)
Rat(n, d) == [num |-> n, den |-> d]
RLt(a, b) == a.num * b.den < b.num * a.den
REq(a, b) == a.num * b.den = b.num * a.den

\* an f64: the exact value and the sign of its rounding error
F64(v, e) == [val |-> v, err |-> e]

\* the comparison  g < threshold  of two f64, threshold being exact
F64Lt(g, threshold) ==
  \/ RLt(g.val, Rat(threshold, 1))
  \/ REq(g.val, Rat(threshold, 1)) /\ g.err < 0

\* total order of the f64 values of the model
F64Less(g1, g2) ==
  \/ RLt(g1.val, g2.val)
  \/ REq(g1.val, g2.val) /\ g1.err < g2.err

(***************************************************************************)
(* Temperature parsing (main.rs 37-56).  A token is the number its digits  *)
(* spell, or BadToken when it is not an unsigned decimal number.           *)
(***************************************************************************)
BadToken == -1
ParseError == -1

\* narrowing to 8 bits before the division
from_milli_c_narrowing_first(token) ==
  IF token = BadToken THEN ParseError ELSE (token % 256) \div 1000

\* s.parse::<u64>() then (t / 1000) as u8
from_milli_c(token) ==
  IF token = BadToken THEN ParseError ELSE (token \div 1000) % 256

\* s.parse::<u8>()
from_str(token) ==
  IF token = BadToken \/ token > 255 THEN ParseError ELSE token

(***************************************************************************)
(* The temperature history: CircularQueue of the circular_queue crate, as  *)
(* main uses it (with_capacity, push, iter).  The crate is a dependency,   *)
(* not part of src/: the queue is modelled as the bounded, overwrite-oldest*)
(* window the specification describes, kept as a vector, a capacity and    *)
(* the index of the slot the next push fills.                              *)
(***************************************************************************)
with_capacity(n) == [data |-> << >>, insertion_index |-> 0, capacity |-> n]

push(q, x) ==
  [q EXCEPT !.data = IF Len(q.data) < q.capacity
                       THEN Append(q.data, x)
                       ELSE [q.data EXCEPT ![q.insertion_index + 1] = x],
            !.insertion_index = (q.insertion_index + 1) % q.capacity]

Reverse(s) == [i \in 1..Len(s) |-> s[Len(s) + 1 - i]]

\* iter(): the slots before the insertion index, newest first, then the rest
iter(q) ==
  Reverse(SubSeq(q.data, 1, q.insertion_index))
    \o Reverse(SubSeq(q.data, q.insertion_index + 1, Len(q.data)))

(***************************************************************************)
(* pid_controller (main.rs 173-199), in exact arithmetic.  The history is  *)
(* the sequence its iterator yields; the coefficients are rationals.       *)
(***************************************************************************)
RECURSIVE SumSeq(_)
SumSeq(s) == IF s = << >> THEN 0 ELSE Head(s) + SumSeq(Tail(s))

\* The coefficients are given in tenths (0.5 is 5, POLLING_INTERVAL * 2.0 is
\* 10 * POLLING_INTERVAL * 2), and the gain is the fraction over
\* 10 * polling_interval:
\*   p/10 * latest + i/10 * integral + d/10 * (latest - previous) / interval
\*     = ((p * latest + i * integral) * interval + d * (latest - previous))
\*       / (10 * interval)

\* the integral term averaged over the window instead of summed
pid_controller_averaging(target, temperature_history, polling_interval, proportional_gain, integral_gain, derivative_gain) ==
  LET error_vals == [i \in 1..Len(temperature_history) |->
                        temperature_history[i] - target]
      den == 10 * polling_interval
  IN  IF Len(error_vals) < 1 THEN Rat(0, den)
      ELSE LET latest_err == error_vals[1]
           IN  IF Len(error_vals) < 2
                 THEN Rat(proportional_gain * latest_err * polling_interval, den)
                 ELSE LET previous_err == error_vals[2]
                          integral == SumSeq(error_vals) \div Len(error_vals)
                          derivative_num == latest_err - previous_err
                      IN  Rat((proportional_gain * latest_err
                                 + integral_gain * integral) * polling_interval
                              + derivative_gain * derivative_num, den)

pid_controller(target, temperature_history, polling_interval, proportional_gain, integral_gain, derivative_gain) ==
  LET error_vals == [i \in 1..Len(temperature_history) |->
                        temperature_history[i] - target]
      den == 10 * polling_interval
  IN  IF Len(error_vals) < 1 THEN Rat(0, den)
      ELSE LET latest_err == error_vals[1]
           IN  IF Len(error_vals) < 2
                 THEN Rat(proportional_gain * latest_err * polling_interval, den)
                 ELSE LET previous_err == error_vals[2]
                          integral == SumSeq(error_vals)
                          derivative_num == latest_err - previous_err
                      IN  Rat((proportional_gain * latest_err
                                 + integral_gain * integral) * polling_interval
                              + derivative_gain * derivative_num, den)

\* rounding errors the f64 result can carry: none for fewer than two samples
\* (0.0, and a product with 0.5 or 1.0, are exact), any sign otherwise
F64Errs(samples) == IF samples < 2 THEN {0} ELSE {-1, 0, 1}

\* coefficients main hands to pid_controller (main.rs 248-263), in tenths
GpuCoefficients ==
  [kp |-> 5, ki |-> 1, kd |-> 10 * POLLING_INTERVAL * 2]
CpuCoefficients ==
  [kp |-> 10, ki |-> 1, kd |-> 5 * POLLING_INTERVAL]

(***************************************************************************)
(* The mappers (main.rs 201-221).                                          *)
(***************************************************************************)
\* inclusive upper bounds: a gain equal to a threshold stays in the lower bucket
map_gain_to_gpu_fan_speed_inclusive(gain) ==
  CASE ~F64Less(F64(Rat(15, 1), 0), gain) -> 56
    [] ~F64Less(F64(Rat(25, 1), 0), gain) -> 64
    [] ~F64Less(F64(Rat(35, 1), 0), gain) -> 72
    [] ~F64Less(F64(Rat(45, 1), 0), gain) -> 80
    [] OTHER -> 88

map_gain_to_gpu_fan_speed(gain) ==
  CASE F64Lt(gain, 15) -> 56
    [] F64Lt(gain, 25) -> 64
    [] F64Lt(gain, 35) -> 72
    [] F64Lt(gain, 45) -> 80
    [] OTHER -> 88

\* the lowest bucket is the 0x0 the last-applied steps start with
map_gain_to_cpu_fan_speed_from_zero(gain) ==
  CASE F64Lt(gain, 10) -> 0
    [] F64Lt(gain, 20) -> 56
    [] F64Lt(gain, 30) -> 64
    [] F64Lt(gain, 40) -> 72
    [] F64Lt(gain, 50) -> 80
    [] F64Lt(gain, 60) -> 88
    [] OTHER -> 96

map_gain_to_cpu_fan_speed(gain) ==
  CASE F64Lt(gain, 10) -> 48
    [] F64Lt(gain, 20) -> 56
    [] F64Lt(gain, 30) -> 64
    [] F64Lt(gain, 40) -> 72
    [] F64Lt(gain, 50) -> 80
    [] F64Lt(gain, 60) -> 88
    [] OTHER -> 96

(***************************************************************************)
(* State of a run of main.                                                 *)
(***************************************************************************)
VARIABLES
  pc,                       \* position of main
  outcome,                  \* "running", or how main ends: "ok", "err", "panic", "abort"
  should_exit,              \* static SHOULD_EXIT
  signalled_at,             \* where main was when the handler first ran, or "never"
  exit_observed,            \* the value the loop head last loaded from SHOULD_EXIT
  gpu_lease,                \* _hold_gpu_fan_control: "none", "held", "released"
  cpu_lease,                \* _hold_cpu_fan_control
  gpu_temperature_history,
  cpu_temperature_history,
  last_gpu_fan_speed,
  next_gpu_fan_speed,
  last_cpu_fan_speed,
  next_cpu_fan_speed,
  gpu_gain,
  cpu_gain,
  cycle,                    \* iterations of the while loop started so far
  ec,                       \* bytes of the embedded controller's registers
  ec_log,                   \* every write issued to the embedded controller
  sensor_log,               \* every temperature reading taken
  fn_arg,                   \* argument of the function applied on its own
  fn_result                 \* and its result

vars ==
  <<pc, outcome, should_exit, signalled_at, exit_observed,
    gpu_lease, cpu_lease,
    gpu_temperature_history, cpu_temperature_history,
    last_gpu_fan_speed, next_gpu_fan_speed,
    last_cpu_fan_speed, next_cpu_fan_speed,
    gpu_gain, cpu_gain, cycle, ec, ec_log, sensor_log, fn_arg, fn_result>>

\* next_*_fan_speed are declared without a value (main.rs 242, 244)
Unassigned == -1

\* the gains exist only inside one iteration of the loop body
NoGain == Rat(0, 10 * POLLING_INTERVAL)

\* tokens the sensors can report: nvidia-smi's last field, the sysfs file
GpuTokens == {60, 90, 300}
CpuTokens == {60000, 70999}

\* the readings of one sensor, oldest first
ReadingsOf(sensor) ==
  SelectSeq(sensor_log, LAMBDA r : r.sensor = sensor)

\* what a sensor can report in the current cycle
SensorInputs(sensor, tokens) ==
  LET seen == ReadingsOf(sensor)
  IN  (IF cycle <= VariedCycles \/ seen = << >>
         THEN tokens
         ELSE {seen[Len(seen)].token}) \cup {BadToken}

\* the state main starts in, but for its position
InitLocals ==
  /\ outcome = "running"
  /\ should_exit = FALSE
  /\ signalled_at = "never"
  /\ exit_observed = FALSE
  /\ gpu_lease = "none"
  /\ cpu_lease = "none"
  /\ gpu_temperature_history = with_capacity(HistoryCapacity)
  /\ cpu_temperature_history = with_capacity(HistoryCapacity)
  /\ last_gpu_fan_speed = 0
  /\ next_gpu_fan_speed = Unassigned
  /\ last_cpu_fan_speed = 0
  /\ next_cpu_fan_speed = Unassigned
  /\ gpu_gain = NoGain
  /\ cpu_gain = NoGain
  /\ cycle = 0
  /\ ec = [r \in Registers |-> 0]
  /\ ec_log = << >>
  /\ sensor_log = << >>

Init ==
  /\ pc = "set_handler"
  /\ InitLocals
  /\ fn_arg = << >>
  /\ fn_result = << >>

(***************************************************************************)
(* write_to_ec_register (main.rs 152-156): the write either succeeds and   *)
(* stores the byte, or fails and stores nothing.                           *)
(***************************************************************************)
write_to_ec_register(register_offset, command, ok, by) ==
  /\ ec' = IF ok THEN [ec EXCEPT ![register_offset] = command] ELSE ec
  /\ ec_log' = Append(ec_log, [reg |-> register_offset, val |-> command,
                               ok |-> ok, by |-> by, cycle |-> cycle])

\* the locals dropped in order of declaration: the GPU lease first
LeaveInDeclarationOrder(how) ==
  /\ outcome' = how
  /\ pc' = IF gpu_lease = "held" THEN "drop_gpu"
           ELSE IF cpu_lease = "held" THEN "drop_cpu"
           ELSE "done"

(***************************************************************************)
(* Leaving main: the locals are dropped in reverse order of declaration,   *)
(* so the CPU lease first, then the GPU lease.                             *)
(***************************************************************************)
Leave(how) ==
  /\ outcome' = how
  /\ pc' = IF cpu_lease = "held" THEN "drop_cpu"
           ELSE IF gpu_lease = "held" THEN "drop_gpu"
           ELSE "done"

\* a panic while already unwinding from a panic aborts the process
AfterFailedDrop(next) ==
  IF outcome = "panic"
    THEN outcome' = "abort" /\ pc' = "done"
    ELSE outcome' = "panic" /\ pc' = next

LoopState ==
  <<gpu_temperature_history, cpu_temperature_history,
    last_gpu_fan_speed, next_gpu_fan_speed,
    last_cpu_fan_speed, next_cpu_fan_speed, gpu_gain, cpu_gain, cycle>>

(***************************************************************************)
(* The ctrlc handler (main.rs 225-227).                                    *)
(***************************************************************************)
HandlerStoreToggling(flag) == ~flag

HandlerStore(flag) == TRUE

Signal ==
  /\ pc \notin {"set_handler", "done"}
  /\ should_exit' = HandlerStore(should_exit)
  /\ signalled_at' = IF signalled_at = "never" THEN pc ELSE signalled_at
  /\ UNCHANGED <<pc, outcome, exit_observed, gpu_lease, cpu_lease, LoopState, ec, ec_log,
                 sensor_log>>
  /\ UNCHANGED <<fn_arg, fn_result>>

(***************************************************************************)
(* main (main.rs 224-284).                                                 *)
(***************************************************************************)
\* ctrlc::set_handler(..)?
SetHandler ==
  /\ pc = "set_handler"
  /\ \E ok \in BOOLEAN :
       IF ok THEN pc' = "acquire_gpu" /\ outcome' = outcome
             ELSE Leave("err")
  /\ UNCHANGED <<should_exit, signalled_at, exit_observed,
                 gpu_lease, cpu_lease, LoopState, ec, ec_log,
                 sensor_log>>
  /\ UNCHANGED <<fn_arg, fn_result>>

\* the result of the acquire write is ignored
AcquireGpuUnchecked ==
  /\ pc = "acquire_gpu"
  /\ \E ok \in BOOLEAN :
       /\ write_to_ec_register(GPU_CONTROL_REGISTER, GPU_ACQUIRE_CONTROL,
                               ok, "acquire")
       /\ gpu_lease' = "held"
       /\ pc' = "acquire_cpu"
       /\ outcome' = outcome
  /\ UNCHANGED <<should_exit, signalled_at, exit_observed,
                 cpu_lease, LoopState, sensor_log>>
  /\ UNCHANGED <<fn_arg, fn_result>>

\* let _hold_gpu_fan_control = HoldEcFanControl::new(..)?
AcquireGpu ==
  /\ pc = "acquire_gpu"
  /\ \E ok \in BOOLEAN :
       /\ write_to_ec_register(GPU_CONTROL_REGISTER, GPU_ACQUIRE_CONTROL,
                               ok, "acquire")
       /\ IF ok THEN /\ gpu_lease' = "held"
                     /\ pc' = "acquire_cpu"
                     /\ outcome' = outcome
                ELSE /\ gpu_lease' = gpu_lease
                     /\ Leave("err")
  /\ UNCHANGED <<should_exit, signalled_at, exit_observed,
                 cpu_lease, LoopState, sensor_log>>
  /\ UNCHANGED <<fn_arg, fn_result>>

\* the result of the acquire write is ignored
AcquireCpuUnchecked ==
  /\ pc = "acquire_cpu"
  /\ \E ok \in BOOLEAN :
       /\ write_to_ec_register(CPU_CONTROL_REGISTER, CPU_ACQUIRE_CONTROL,
                               ok, "acquire")
       /\ cpu_lease' = "held"
       /\ pc' = "loop_head"
       /\ outcome' = outcome
  /\ UNCHANGED <<should_exit, signalled_at, exit_observed,
                 gpu_lease, LoopState, sensor_log>>
  /\ UNCHANGED <<fn_arg, fn_result>>

\* let _hold_cpu_fan_control = HoldEcFanControl::new(..)?
AcquireCpu ==
  /\ pc = "acquire_cpu"
  /\ \E ok \in BOOLEAN :
       /\ write_to_ec_register(CPU_CONTROL_REGISTER, CPU_ACQUIRE_CONTROL,
                               ok, "acquire")
       /\ IF ok THEN /\ cpu_lease' = "held"
                     /\ pc' = "loop_head"
                     /\ outcome' = outcome
                ELSE /\ cpu_lease' = cpu_lease
                     /\ Leave("err")
  /\ UNCHANGED <<should_exit, signalled_at, exit_observed,
                 gpu_lease, LoopState, sensor_log>>
  /\ UNCHANGED <<fn_arg, fn_result>>

\* while !SHOULD_EXIT.load(..)
LoopHead ==
  /\ pc = "loop_head"
  /\ IF should_exit
       THEN /\ Leave("ok")
            /\ cycle' = cycle
       ELSE /\ cycle < MaxCycles
            /\ cycle' = cycle + 1
            /\ pc' = "read_gpu"
            /\ outcome' = outcome
  /\ exit_observed' = should_exit
  /\ UNCHANGED <<should_exit, signalled_at, gpu_lease, cpu_lease,
                 gpu_temperature_history, cpu_temperature_history,
                 last_gpu_fan_speed, next_gpu_fan_speed,
                 last_cpu_fan_speed, next_cpu_fan_speed, gpu_gain, cpu_gain,
                 ec, ec_log, sensor_log>>
  /\ UNCHANGED <<fn_arg, fn_result>>

\* a reading that is not pushed to the history
ReadGpuUnpushed ==
  /\ pc = "read_gpu"
  /\ \E token \in SensorInputs("gpu", GpuTokens) :
       /\ sensor_log' = Append(sensor_log, [sensor |-> "gpu", token |-> token,
                                            cycle |-> cycle])
       /\ IF from_str(token) = ParseError
            THEN /\ Leave("panic")
                 /\ gpu_temperature_history' = gpu_temperature_history
            ELSE /\ gpu_temperature_history' = gpu_temperature_history
                 /\ pc' = "read_cpu"
                 /\ outcome' = outcome
  /\ UNCHANGED <<should_exit, signalled_at, exit_observed,
                 gpu_lease, cpu_lease, cpu_temperature_history,
                 last_gpu_fan_speed, next_gpu_fan_speed,
                 last_cpu_fan_speed, next_cpu_fan_speed, gpu_gain, cpu_gain,
                 cycle, ec, ec_log>>
  /\ UNCHANGED <<fn_arg, fn_result>>

\* gpu_temperature_history.push(read_nvidia_gpu_temp().unwrap())
ReadGpu ==
  /\ pc = "read_gpu"
  /\ \E token \in SensorInputs("gpu", GpuTokens) :
       /\ sensor_log' = Append(sensor_log, [sensor |-> "gpu", token |-> token,
                                            cycle |-> cycle])
       /\ IF from_str(token) = ParseError
            THEN /\ Leave("panic")
                 /\ gpu_temperature_history' = gpu_temperature_history
            ELSE /\ gpu_temperature_history' =
                      push(gpu_temperature_history, from_str(token))
                 /\ pc' = "read_cpu"
                 /\ outcome' = outcome
  /\ UNCHANGED <<should_exit, signalled_at, exit_observed,
                 gpu_lease, cpu_lease, cpu_temperature_history,
                 last_gpu_fan_speed, next_gpu_fan_speed,
                 last_cpu_fan_speed, next_cpu_fan_speed, gpu_gain, cpu_gain,
                 cycle, ec, ec_log>>
  /\ UNCHANGED <<fn_arg, fn_result>>

\* a read that gives up the cycle when the flag is already set
ReadCpuPreempted ==
  /\ pc = "read_cpu"
  /\ IF should_exit
       THEN /\ Leave("ok")
            /\ UNCHANGED <<sensor_log, cpu_temperature_history>>
       ELSE \E token \in SensorInputs("cpu", CpuTokens) :
         /\ sensor_log' = Append(sensor_log, [sensor |-> "cpu",
                                   token |-> token, cycle |-> cycle])
         /\ IF from_milli_c(token) = ParseError
              THEN /\ Leave("panic")
                   /\ cpu_temperature_history' = cpu_temperature_history
              ELSE /\ cpu_temperature_history' =
                        push(cpu_temperature_history, from_milli_c(token))
                   /\ pc' = "compute_gains"
                   /\ outcome' = outcome
  /\ UNCHANGED <<should_exit, signalled_at, exit_observed,
                 gpu_lease, cpu_lease, gpu_temperature_history,
                 last_gpu_fan_speed, next_gpu_fan_speed,
                 last_cpu_fan_speed, next_cpu_fan_speed, gpu_gain, cpu_gain,
                 cycle, ec, ec_log>>
  /\ UNCHANGED <<fn_arg, fn_result>>

\* cpu_temperature_history.push(read_i7_cpu_temp().unwrap())
ReadCpu ==
  /\ pc = "read_cpu"
  /\ \E token \in SensorInputs("cpu", CpuTokens) :
       /\ sensor_log' = Append(sensor_log, [sensor |-> "cpu", token |-> token,
                                            cycle |-> cycle])
       /\ IF from_milli_c(token) = ParseError
            THEN /\ Leave("panic")
                 /\ cpu_temperature_history' = cpu_temperature_history
            ELSE /\ cpu_temperature_history' =
                      push(cpu_temperature_history, from_milli_c(token))
                 /\ pc' = "compute_gains"
                 /\ outcome' = outcome
  /\ UNCHANGED <<should_exit, signalled_at, exit_observed,
                 gpu_lease, cpu_lease, gpu_temperature_history,
                 last_gpu_fan_speed, next_gpu_fan_speed,
                 last_cpu_fan_speed, next_cpu_fan_speed, gpu_gain, cpu_gain,
                 cycle, ec, ec_log>>
  /\ UNCHANGED <<fn_arg, fn_result>>

\* let gpu_gain = pid_controller(..); let cpu_gain = pid_controller(..)
\* (gpu_gain and cpu_gain keep the exact value of the f64)
ComputeGains ==
  /\ pc = "compute_gains"
  /\ gpu_gain' = pid_controller(TargetTemperature,
                                iter(gpu_temperature_history),
                                POLLING_INTERVAL, GpuCoefficients.kp,
                                GpuCoefficients.ki, GpuCoefficients.kd)
  /\ cpu_gain' = pid_controller(TargetTemperature,
                                iter(cpu_temperature_history),
                                POLLING_INTERVAL, CpuCoefficients.kp,
                                CpuCoefficients.ki, CpuCoefficients.kd)
  /\ pc' = "apply_gpu"
  /\ UNCHANGED <<outcome, should_exit, signalled_at, exit_observed,
                 gpu_lease, cpu_lease,
                 gpu_temperature_history, cpu_temperature_history,
                 last_gpu_fan_speed, next_gpu_fan_speed,
                 last_cpu_fan_speed, next_cpu_fan_speed,
                 cycle, ec, ec_log, sensor_log>>
  /\ UNCHANGED <<fn_arg, fn_result>>

\* the result of the speed write is ignored: let _ = set_gpu_fan_speed(..)
ApplyGpuUnchecked ==
  /\ pc = "apply_gpu"
  /\ \E e \in F64Errs(Len(iter(gpu_temperature_history))) :
       next_gpu_fan_speed' = map_gain_to_gpu_fan_speed(F64(gpu_gain, e))
  /\ IF next_gpu_fan_speed' # last_gpu_fan_speed
       THEN \E ok \in BOOLEAN :
              /\ write_to_ec_register(GPU_SPEED_CONTROL_REGISTER,
                                      next_gpu_fan_speed', ok, "speed")
              /\ last_gpu_fan_speed' = next_gpu_fan_speed'
       ELSE UNCHANGED <<last_gpu_fan_speed, ec, ec_log>>
  /\ pc' = "apply_cpu"
  /\ UNCHANGED <<outcome, should_exit, signalled_at, exit_observed,
                 gpu_lease, cpu_lease,
                 gpu_temperature_history, cpu_temperature_history,
                 last_cpu_fan_speed, next_cpu_fan_speed, gpu_gain, cpu_gain,
                 cycle, sensor_log>>
  /\ UNCHANGED <<fn_arg, fn_result>>

\* the speed is written in every cycle, changed or not
ApplyGpuAlways ==
  /\ pc = "apply_gpu"
  /\ \E e \in F64Errs(Len(iter(gpu_temperature_history))) :
       next_gpu_fan_speed' = map_gain_to_gpu_fan_speed(F64(gpu_gain, e))
  /\ \E ok \in BOOLEAN :
       /\ write_to_ec_register(GPU_SPEED_CONTROL_REGISTER,
                               next_gpu_fan_speed', ok, "speed")
       /\ IF ok THEN /\ last_gpu_fan_speed' = next_gpu_fan_speed'
                     /\ pc' = "apply_cpu"
                     /\ outcome' = outcome
                ELSE /\ last_gpu_fan_speed' = last_gpu_fan_speed
                     /\ Leave("err")
  /\ UNCHANGED <<should_exit, signalled_at, exit_observed,
                 gpu_lease, cpu_lease,
                 gpu_temperature_history, cpu_temperature_history,
                 last_cpu_fan_speed, next_cpu_fan_speed, gpu_gain, cpu_gain,
                 cycle, sensor_log>>
  /\ UNCHANGED <<fn_arg, fn_result>>

\* next_gpu_fan_speed = map_gain_to_gpu_fan_speed(gpu_gain); if .. != .. { .. }
\* (e is the rounding error the f64 in gpu_gain carries)
ApplyGpu ==
  /\ pc = "apply_gpu"
  /\ \E e \in F64Errs(Len(iter(gpu_temperature_history))) :
       next_gpu_fan_speed' = map_gain_to_gpu_fan_speed(F64(gpu_gain, e))
  /\ IF next_gpu_fan_speed' # last_gpu_fan_speed
       THEN \E ok \in BOOLEAN :
              /\ write_to_ec_register(GPU_SPEED_CONTROL_REGISTER,
                                      next_gpu_fan_speed', ok, "speed")
              /\ IF ok THEN /\ last_gpu_fan_speed' = next_gpu_fan_speed'
                            /\ pc' = "apply_cpu"
                            /\ outcome' = outcome
                       ELSE /\ last_gpu_fan_speed' = last_gpu_fan_speed
                            /\ Leave("err")
       ELSE /\ pc' = "apply_cpu"
            /\ UNCHANGED <<outcome, last_gpu_fan_speed, ec, ec_log>>
  /\ UNCHANGED <<should_exit, signalled_at, exit_observed,
                 gpu_lease, cpu_lease,
                 gpu_temperature_history, cpu_temperature_history,
                 last_cpu_fan_speed, next_cpu_fan_speed, gpu_gain, cpu_gain,
                 cycle, sensor_log>>
  /\ UNCHANGED <<fn_arg, fn_result>>

\* next_cpu_fan_speed = map_gain_to_cpu_fan_speed(cpu_gain); if .. != .. { .. }
\* (e is the rounding error the f64 in cpu_gain carries)
ApplyCpu ==
  /\ pc = "apply_cpu"
  /\ \E e \in F64Errs(Len(iter(cpu_temperature_history))) :
       next_cpu_fan_speed' = map_gain_to_cpu_fan_speed(F64(cpu_gain, e))
  /\ IF next_cpu_fan_speed' # last_cpu_fan_speed
       THEN \E ok \in BOOLEAN :
              /\ write_to_ec_register(CPU_SPEED_CONTROL_REGISTER,
                                      next_cpu_fan_speed', ok, "speed")
              /\ IF ok THEN /\ last_cpu_fan_speed' = next_cpu_fan_speed'
                            /\ pc' = "sleep"
                            /\ outcome' = outcome
                       ELSE /\ last_cpu_fan_speed' = last_cpu_fan_speed
                            /\ Leave("err")
       ELSE /\ pc' = "sleep"
            /\ UNCHANGED <<outcome, last_cpu_fan_speed, ec, ec_log>>
  /\ UNCHANGED <<should_exit, signalled_at, exit_observed,
                 gpu_lease, cpu_lease,
                 gpu_temperature_history, cpu_temperature_history,
                 last_gpu_fan_speed, next_gpu_fan_speed, gpu_gain, cpu_gain,
                 cycle, sensor_log>>
  /\ UNCHANGED <<fn_arg, fn_result>>

\* println!(..); sleep(Duration::from_millis(POLLING_INTERVAL)).await
Sleep ==
  /\ pc = "sleep"
  /\ pc' = "loop_head"
  /\ gpu_gain' = NoGain
  /\ cpu_gain' = NoGain
  /\ UNCHANGED <<outcome, should_exit, signalled_at, exit_observed,
                 gpu_lease, cpu_lease,
                 gpu_temperature_history, cpu_temperature_history,
                 last_gpu_fan_speed, next_gpu_fan_speed,
                 last_cpu_fan_speed, next_cpu_fan_speed,
                 cycle, ec, ec_log, sensor_log>>
  /\ UNCHANGED <<fn_arg, fn_result>>

(***************************************************************************)
(* Drop for HoldEcFanControl (main.rs 101-105):                            *)
(* write_to_ec_register(offset, release_control_value).unwrap()            *)
(***************************************************************************)
\* a drop that releases nothing
DropCpuSilent ==
  /\ pc = "drop_cpu"
  /\ cpu_lease' = "released"
  /\ pc' = "drop_gpu"
  /\ UNCHANGED <<outcome, should_exit, signalled_at, exit_observed,
                 gpu_lease, LoopState, ec, ec_log,
                 sensor_log>>
  /\ UNCHANGED <<fn_arg, fn_result>>

DropCpu ==
  /\ pc = "drop_cpu"
  /\ cpu_lease' = "released"
  /\ \E ok \in BOOLEAN :
       /\ write_to_ec_register(CPU_CONTROL_REGISTER, CPU_RELEASE_CONTROL,
                               ok, "release")
       /\ IF ok THEN pc' = "drop_gpu" /\ outcome' = outcome
                ELSE AfterFailedDrop("drop_gpu")
  /\ UNCHANGED <<should_exit, signalled_at, exit_observed,
                 gpu_lease, LoopState, sensor_log>>
  /\ UNCHANGED <<fn_arg, fn_result>>

DropGpu ==
  /\ pc = "drop_gpu"
  /\ gpu_lease' = "released"
  /\ \E ok \in BOOLEAN :
       /\ write_to_ec_register(GPU_CONTROL_REGISTER, GPU_RELEASE_CONTROL,
                               ok, "release")
       /\ IF ok THEN pc' = "done" /\ outcome' = outcome
                ELSE AfterFailedDrop("done")
  /\ UNCHANGED <<should_exit, signalled_at, exit_observed,
                 cpu_lease, LoopState, sensor_log>>
  /\ UNCHANGED <<fn_arg, fn_result>>

Next ==
  \/ Signal
  \/ SetHandler
  \/ AcquireGpu
  \/ AcquireCpu
  \/ LoopHead
  \/ ReadGpu
  \/ ReadCpu
  \/ ComputeGains
  \/ ApplyGpu
  \/ ApplyCpu
  \/ Sleep
  \/ DropCpu
  \/ DropGpu

Spec == Init /\ [][Next]_vars

\* the steps of main itself: the thread keeps running, and every call it
\* makes (sensor read, register write, sleep) returns
MainStep ==
  \/ SetHandler
  \/ AcquireGpu
  \/ AcquireCpu
  \/ LoopHead
  \/ ReadGpu
  \/ ReadCpu
  \/ ComputeGains
  \/ ApplyGpu
  \/ ApplyCpu
  \/ Sleep
  \/ DropCpu
  \/ DropGpu

FairSpec == Spec /\ WF_vars(MainStep)

(***************************************************************************)
(* The mappers on their own: a gain k/2, with any rounding error, is       *)
(* handed to both mappers.                                                 *)
(***************************************************************************)
MapGains ==
  {F64(Rat(k, 2), e) : k \in (0 - MapGainSpan)..(140 + MapGainSpan),
                       e \in {-1, 0, 1}}

InitMap ==
  /\ pc = "map_call"
  /\ InitLocals
  /\ fn_arg \in MapGains
  /\ fn_result = << >>

MapGain ==
  /\ pc = "map_call"
  /\ pc' = "map_return"
  /\ fn_result' = [gpu |-> map_gain_to_gpu_fan_speed(fn_arg),
                   cpu |-> map_gain_to_cpu_fan_speed(fn_arg)]
  /\ UNCHANGED <<outcome, should_exit, signalled_at, exit_observed,
                 gpu_lease, cpu_lease, LoopState, ec, ec_log, sensor_log,
                 fn_arg>>

NextMap == MapGain

SpecMap == InitMap /\ [][NextMap]_vars

(***************************************************************************)
(* pid_controller on its own: a history of 0 to 10 samples, newest first,  *)
(* is handed to it with the target, interval and coefficients of main.     *)
(***************************************************************************)
PidTemps == {80, 85, 90}

PidHistories == UNION {[1..n -> PidTemps] : n \in 0..HistoryCapacity}

InitPid ==
  /\ pc = "pid_call"
  /\ InitLocals
  /\ fn_arg \in {[history |-> h, k |-> c] :
                    h \in PidHistories,
                    c \in {GpuCoefficients, CpuCoefficients}}
  /\ fn_result = << >>

PidCall ==
  /\ pc = "pid_call"
  /\ pc' = "pid_return"
  /\ fn_result' = pid_controller(TargetTemperature, fn_arg.history,
                                 POLLING_INTERVAL, fn_arg.k.kp, fn_arg.k.ki,
                                 fn_arg.k.kd)
  /\ UNCHANGED <<outcome, should_exit, signalled_at, exit_observed,
                 gpu_lease, cpu_lease, LoopState, ec, ec_log, sensor_log,
                 fn_arg>>

NextPid == PidCall

SpecPid == InitPid /\ [][NextPid]_vars

(***************************************************************************)
(* Temperature::from_milli_c on its own: the token spells 1000 * t + r.    *)
(***************************************************************************)
MilliRemainders == {0, 1, 999}

InitMilli ==
  /\ pc = "milli_call"
  /\ InitLocals
  /\ fn_arg \in {[t |-> t, r |-> r] :
                    t \in 0..MilliMaxDegrees, r \in MilliRemainders}
  /\ fn_result = << >>

MilliCall ==
  /\ pc = "milli_call"
  /\ pc' = "milli_return"
  /\ fn_result' = from_milli_c(1000 * fn_arg.t + fn_arg.r)
  /\ UNCHANGED <<outcome, should_exit, signalled_at, exit_observed,
                 gpu_lease, cpu_lease, LoopState, ec, ec_log, sensor_log,
                 fn_arg>>

NextMilli == MilliCall

SpecMilli == InitMilli /\ [][NextMilli]_vars

(***************************************************************************)
(* Vocabulary of the properties.                                           *)
(***************************************************************************)
Teardown == {"drop_cpu", "drop_gpu", "done"}

\* the writes issued so far that stored (or tried to store) val at reg
WritesOf(reg, val) ==
  SelectSeq(ec_log, LAMBDA w : w.reg = reg /\ w.val = val)

GpuReleaseWrites == WritesOf(GPU_CONTROL_REGISTER, GPU_RELEASE_CONTROL)
CpuReleaseWrites == WritesOf(CPU_CONTROL_REGISTER, CPU_RELEASE_CONTROL)

\* the writes issued by set_gpu_fan_speed / set_cpu_fan_speed
GpuSpeedWrites ==
  SelectSeq(ec_log, LAMBDA w : w.by = "speed"
                               /\ w.reg = GPU_SPEED_CONTROL_REGISTER)
CpuSpeedWrites ==
  SelectSeq(ec_log, LAMBDA w : w.by = "speed"
                               /\ w.reg = CPU_SPEED_CONTROL_REGISTER)
SpeedWrites == SelectSeq(ec_log, LAMBDA w : w.by = "speed")

AcquireFailed ==
  \E i \in 1..Len(ec_log) : ec_log[i].by = "acquire" /\ ~ec_log[i].ok

\* the step just taken issued exactly one write: a speed write of val to reg
IssuedSpeedWrite(reg, val) ==
  /\ Len(ec_log') = Len(ec_log) + 1
  /\ ec_log'[Len(ec_log')].by = "speed"
  /\ ec_log'[Len(ec_log')].reg = reg
  /\ ec_log'[Len(ec_log')].val = val

(***************************************************************************)
(* C1: a run that ends after the loop head observed SHOULD_EXIT true has   *)
(* issued the release command exactly once per subsystem                   *)
(* (GPU_RELEASE_CONTROL to GPU_CONTROL_REGISTER, CPU_RELEASE_CONTROL to    *)
(* CPU_CONTROL_REGISTER), wherever in a cycle the handler set the flag;    *)
(* when main returns Ok both release writes succeeded.                     *)
(***************************************************************************)
C1_ReleaseOncePerSubsystem ==
  (pc = "done" /\ exit_observed) =>
     /\ Len(GpuReleaseWrites) = 1
     /\ Len(CpuReleaseWrites) = 1
     /\ outcome = "ok" => /\ GpuReleaseWrites[1].ok
                          /\ CpuReleaseWrites[1].ok

\* main returned Ok after a signal that arrived in the middle of a cycle
C1_Witness ==
  /\ pc = "done"
  /\ exit_observed
  /\ outcome = "ok"
  /\ signalled_at \in {"read_cpu", "compute_gains", "apply_gpu", "apply_cpu"}
  /\ Len(GpuReleaseWrites) = 1
  /\ Len(CpuReleaseWrites) = 1

(***************************************************************************)
(* C2: hysteresis.  For each subsystem a cycle issues a speed write (of    *)
(* the mapped step) if and only if the step mapped in that cycle differs   *)
(* from the last-applied step; a cycle that maps to the same step as the   *)
(* cycle before it issues no write, and no cycle writes a subsystem's      *)
(* speed twice.                                                            *)
(***************************************************************************)
C2_Hysteresis ==
  [][ /\ (pc = "apply_gpu" /\ pc' # pc) =>
           /\ IssuedSpeedWrite(GPU_SPEED_CONTROL_REGISTER, next_gpu_fan_speed')
                <=> next_gpu_fan_speed' # last_gpu_fan_speed
           /\ next_gpu_fan_speed' = last_gpu_fan_speed => ec_log' = ec_log
           /\ (cycle >= 2 /\ next_gpu_fan_speed' = next_gpu_fan_speed)
                => ec_log' = ec_log
      /\ (pc = "apply_cpu" /\ pc' # pc) =>
           /\ IssuedSpeedWrite(CPU_SPEED_CONTROL_REGISTER, next_cpu_fan_speed')
                <=> next_cpu_fan_speed' # last_cpu_fan_speed
           /\ next_cpu_fan_speed' = last_cpu_fan_speed => ec_log' = ec_log
           /\ (cycle >= 2 /\ next_cpu_fan_speed' = next_cpu_fan_speed)
                => ec_log' = ec_log
      /\ (ec_log' # ec_log /\ ec_log'[Len(ec_log')].by = "speed") =>
           \A i \in 1..Len(ec_log) :
              (ec_log[i].by = "speed"
               /\ ec_log[i].reg = ec_log'[Len(ec_log')].reg)
                => ec_log[i].cycle # ec_log'[Len(ec_log')].cycle
    ]_vars

\* two consecutive cycles mapped the GPU to the same step: the first wrote
\* it, the second (just applied) wrote nothing
C2_Witness ==
  /\ pc = "apply_cpu"
  /\ cycle >= 2
  /\ \E i \in 1..Len(GpuSpeedWrites) :
       /\ GpuSpeedWrites[i].cycle = cycle - 1
       /\ GpuSpeedWrites[i].val = next_gpu_fan_speed
       /\ GpuSpeedWrites[i].ok
  /\ \A i \in 1..Len(GpuSpeedWrites) : GpuSpeedWrites[i].cycle # cycle
  /\ last_gpu_fan_speed = next_gpu_fan_speed

(***************************************************************************)
(* C3: when the acquire write of either lease fails, the control loop      *)
(* never starts: no temperature is read, nothing is pushed to a history    *)
(* and no speed write is issued in that run.                               *)
(***************************************************************************)
C3_NoLoopWithoutLeases ==
  AcquireFailed =>
     /\ sensor_log = << >>
     /\ gpu_temperature_history.data = << >>
     /\ cpu_temperature_history.data = << >>
     /\ SpeedWrites = << >>
     /\ cycle = 0
     /\ pc \in Teardown

\* the GPU lease was acquired, the CPU acquire failed, and main has ended
C3_Witness ==
  /\ pc = "done"
  /\ AcquireFailed
  /\ gpu_lease = "released"
  /\ cpu_lease = "none"
  /\ outcome = "err"

(***************************************************************************)
(* C4: on every exit path of main taken after a lease was acquired, the    *)
(* release command of that lease is written to its control register        *)
(* exactly once.                                                           *)
(***************************************************************************)
C4_ReleaseOnEveryExitPath ==
  pc = "done" =>
     /\ gpu_lease # "none" => Len(GpuReleaseWrites) = 1
     /\ cpu_lease # "none" => Len(CpuReleaseWrites) = 1

(***************************************************************************)
(* C5: SHOULD_EXIT is consulted at the loop head only.  A step of the loop *)
(* body always leads to the next step of the same cycle (unless the step   *)
(* itself failed), whatever the flag; the loop head alone loads the flag,  *)
(* enters the body when it is false and leaves the loop when it is true;   *)
(* after that no reading, push or speed write happens.                     *)
(***************************************************************************)
Body == {"read_gpu", "read_cpu", "compute_gains", "apply_gpu", "apply_cpu",
         "sleep"}

BodySucc(p) ==
  CASE p = "read_gpu" -> "read_cpu"
    [] p = "read_cpu" -> "compute_gains"
    [] p = "compute_gains" -> "apply_gpu"
    [] p = "apply_gpu" -> "apply_cpu"
    [] p = "apply_cpu" -> "sleep"
    [] p = "sleep" -> "loop_head"

SensorFailed(r) ==
  IF r.sensor = "gpu" THEN from_str(r.token) = ParseError
                      ELSE from_milli_c(r.token) = ParseError

\* the step just taken was a failed reading or a failed register write
StepFailed ==
  \/ /\ Len(sensor_log') = Len(sensor_log) + 1
     /\ SensorFailed(sensor_log'[Len(sensor_log')])
  \/ /\ Len(ec_log') = Len(ec_log) + 1
     /\ ~ec_log'[Len(ec_log')].ok

C5_FlagCheckedAtLoopHeadOnly ==
  [][ /\ (pc \in Body /\ pc' # pc) =>
           \/ pc' = BodySucc(pc) /\ ~StepFailed
           \/ pc' \in Teardown /\ StepFailed
      /\ (pc = "loop_head" /\ pc' # pc) =>
           /\ exit_observed' = should_exit
           /\ should_exit => pc' \in Teardown
           /\ ~should_exit => pc' = "read_gpu"
      /\ pc # "loop_head" => exit_observed' = exit_observed
      /\ exit_observed =>
           /\ pc' \in Teardown
           /\ sensor_log' = sensor_log
           /\ gpu_temperature_history' = gpu_temperature_history
           /\ cpu_temperature_history' = cpu_temperature_history
           /\ cycle' = cycle
           /\ ec_log' # ec_log => ec_log'[Len(ec_log')].by = "release"
    ]_vars

\* the handler ran while main was about to read the CPU temperature; the
\* cycle went on through the readings and a speed write to the sleep
C5_Witness ==
  /\ pc = "sleep"
  /\ signalled_at = "read_cpu"
  /\ should_exit
  /\ ~exit_observed
  /\ sensor_log # << >>
  /\ sensor_log[Len(sensor_log)].sensor = "cpu"
  /\ sensor_log[Len(sensor_log)].cycle = cycle
  /\ ec_log[Len(ec_log)].by = "speed"
  /\ ec_log[Len(ec_log)].cycle = cycle

(***************************************************************************)
(* C6: once SHOULD_EXIT is set it stays set, and main eventually ends;     *)
(* when no reading and no register write failed, it ends returning Ok with *)
(* both leases released.  Once main is leaving it never re-enters the loop.*)
(***************************************************************************)
IoFailure ==
  \/ \E i \in 1..Len(ec_log) : ~ec_log[i].ok
  \/ \E i \in 1..Len(sensor_log) : SensorFailed(sensor_log[i])

Stopped ==
  /\ pc = "done"
  /\ outcome = "ok"
  /\ gpu_lease = "released"
  /\ cpu_lease = "released"
  /\ Len(GpuReleaseWrites) = 1
  /\ Len(CpuReleaseWrites) = 1
  /\ ec[GPU_CONTROL_REGISTER] = GPU_RELEASE_CONTROL
  /\ ec[CPU_CONTROL_REGISTER] = CPU_RELEASE_CONTROL

C6_CancellationStops ==
  /\ [](should_exit => <>(pc = "done" /\ (IoFailure \/ Stopped)))
  /\ [][should_exit => should_exit']_vars
  /\ [][(pc \in Teardown) => (pc' \in Teardown)]_vars

C6_Witness ==
  /\ Stopped
  /\ should_exit
  /\ ~IoFailure
  /\ cycle >= 1

(***************************************************************************)
(* C7: every byte written to a subsystem's speed register is one of that   *)
(* subsystem's five named speed codes: a GPU speed write is a field of     *)
(* GPU_FAN_SPEED_COMMANDS, a CPU speed write a field of                    *)
(* CPU_FAN_SPEED_COMMANDS.                                                 *)
(***************************************************************************)
CodesOf(commands) ==
  {commands.pc_0, commands.pc_25, commands.pc_50, commands.pc_75,
   commands.pc_100}

C7_SpeedWritesAreNamedCodes ==
  /\ \A i \in 1..Len(GpuSpeedWrites) :
       GpuSpeedWrites[i].val \in CodesOf(GPU_FAN_SPEED_COMMANDS)
  /\ \A i \in 1..Len(CpuSpeedWrites) :
       CpuSpeedWrites[i].val \in CodesOf(CPU_FAN_SPEED_COMMANDS)

(***************************************************************************)
(* C8: both mappers are total, non-decreasing step functions with          *)
(* exclusive upper bounds: for all gains g1 < g2, map(g1) <= map(g2);      *)
(* every gain below the first threshold, negative gains included, maps to  *)
(* the lowest step; a gain exactly equal to a threshold (GPU 15, 25, 35,   *)
(* 45; CPU 10, 20, 30, 40, 50, 60) maps to the bucket above it.            *)
(***************************************************************************)
GpuBucketAbove == (15 :> 64) @@ (25 :> 72) @@ (35 :> 80) @@ (45 :> 88)
CpuBucketAbove ==
  (10 :> 56) @@ (20 :> 64) @@ (30 :> 72) @@ (40 :> 80) @@ (50 :> 88)
    @@ (60 :> 96)

\* the gain is exactly the whole number t
IsExactly(g, t) == g.err = 0 /\ g.val.num = t * g.val.den

C8_MappersMonotone ==
  pc = "map_return" =>
     /\ fn_result.gpu \in {56, 64, 72, 80, 88}
     /\ fn_result.cpu \in {48, 56, 64, 72, 80, 88, 96}
     /\ \A g2 \in MapGains :
          F64Less(fn_arg, g2) =>
             /\ fn_result.gpu <= map_gain_to_gpu_fan_speed(g2)
             /\ fn_result.cpu <= map_gain_to_cpu_fan_speed(g2)
     /\ fn_arg.val.num < 15 * fn_arg.val.den => fn_result.gpu = 56
     /\ fn_arg.val.num < 10 * fn_arg.val.den => fn_result.cpu = 48
     /\ \A t \in DOMAIN GpuBucketAbove :
          IsExactly(fn_arg, t) => fn_result.gpu = GpuBucketAbove[t]
     /\ \A t \in DOMAIN CpuBucketAbove :
          IsExactly(fn_arg, t) => fn_result.cpu = CpuBucketAbove[t]

\* the gain 15.0 was mapped: second-lowest GPU step, and the CPU step above 10
C8_Witness ==
  /\ pc = "map_return"
  /\ IsExactly(fn_arg, 15)
  /\ fn_result.gpu = 64
  /\ fn_result.cpu = 56

(***************************************************************************)
(* C9: each temperature history holds at most 10 samples in every          *)
(* reachable state, and it yields, newest first, the samples pushed so     *)
(* far, or the last 10 of them once more than 10 were pushed.              *)
(***************************************************************************)
\* the temperatures pushed for a sensor, oldest first
Pushed(sensor) ==
  LET ok == SelectSeq(ReadingsOf(sensor), LAMBDA r : ~SensorFailed(r))
  IN  [i \in 1..Len(ok) |-> IF sensor = "gpu" THEN from_str(ok[i].token)
                                              ELSE from_milli_c(ok[i].token)]

IsLastPushed(history, pushed) ==
  /\ Len(history.data) <= 10
  /\ Len(iter(history)) = IF Len(pushed) < 10 THEN Len(pushed) ELSE 10
  /\ \A i \in 1..Len(iter(history)) :
       iter(history)[i] = pushed[Len(pushed) + 1 - i]

PidReference(target, history, interval, k) ==
  LET n == Len(history)
  IN  IF n = 0 THEN 0
      ELSE IF n = 1 THEN k.kp * (history[1] - target) * interval
      ELSE k.kp * (history[1] - target) * interval
           + k.ki * (SumSeq(history) - n * target) * interval
           + k.kd * (history[1] - history[2])

C10_PidMatchesReference ==
  /\ pc = "pid_return" =>
       /\ fn_result.den = 10 * POLLING_INTERVAL
       /\ fn_result.num = PidReference(TargetTemperature, fn_arg.history,
                                       POLLING_INTERVAL, fn_arg.k)
  /\ (/\ pc = "pid_return"
      /\ fn_arg.history = <<90, 85, 80>>
      /\ fn_arg.k = GpuCoefficients) =>
       \* 0.5 * 30 + 0.1 * 75 + 10000 * 5 / 5000 = 32.5
       fn_result.num * 2 = 65 * fn_result.den

\* the history [90, 85, 80] was handed to pid_controller
C10_Witness ==
  /\ pc = "pid_return"
  /\ fn_arg.history = <<90, 85, 80>>
  /\ fn_result = Rat(1625000, 50000)

(***************************************************************************)
(* C11: floor division of the milli-degree parser.  As stated: for all t   *)
(* and 0 <= r < 1000, parsing the token of 1000 * t + r yields             *)
(* Temperature(t).                                                         *)
(***************************************************************************)
C11_MilliFloorForAllT ==
  pc = "milli_return" => fn_result = fn_arg.t

(***************************************************************************)
(* C11, as amended: for all t in 0..255 and 0 <= r < 1000, parsing the     *)
(* token of 1000 * t + r yields Temperature(t); the division is done       *)
(* before the narrowing, which for t above 255 keeps t modulo 256.         *)
(***************************************************************************)
C11_MilliFloorWithinU8 ==
  pc = "milli_return" =>
     /\ fn_result \in 0..255
     /\ fn_arg.t <= 255 => fn_result = fn_arg.t
     /\ \E k \in 0..MilliMaxDegrees : fn_arg.t = fn_result + 256 * k

\* 255999 was parsed: the largest temperature, with the largest remainder
C11_Witness ==
  /\ pc = "milli_return"
  /\ fn_arg.t = 255
  /\ fn_arg.r = 999
  /\ fn_result = 255

(***************************************************************************)
(* C12: a failure during a cycle is fatal.  Once a sensor reading failed   *)
(* (the read or the parse) or a speed write failed, the run reads no       *)
(* sensor, pushes to no history and issues no speed write any more; and a  *)
(* cycle whose GPU speed write failed has no CPU speed write.              *)
(***************************************************************************)
SpeedWriteFailed ==
  \E i \in 1..Len(ec_log) : ec_log[i].by = "speed" /\ ~ec_log[i].ok

CycleFailed ==
  \/ \E i \in 1..Len(sensor_log) : SensorFailed(sensor_log[i])
  \/ SpeedWriteFailed

C12_FailureIsFatal ==
  [][ /\ CycleFailed =>
           /\ sensor_log' = sensor_log
           /\ gpu_temperature_history' = gpu_temperature_history
           /\ cpu_temperature_history' = cpu_temperature_history
           /\ SpeedWrites' = SpeedWrites
           /\ pc' \in Teardown
      /\ \A i \in 1..Len(GpuSpeedWrites') :
           ~GpuSpeedWrites'[i].ok =>
              /\ i = Len(GpuSpeedWrites')
              /\ \A j \in 1..Len(CpuSpeedWrites') :
                   CpuSpeedWrites'[j].cycle # GpuSpeedWrites'[i].cycle
    ]_vars

\* a run that ended on the failed GPU speed write of its second cycle
C12_Witness ==
  /\ pc = "done"
  /\ outcome = "err"
  /\ cycle = 2
  /\ Len(GpuSpeedWrites) = 2
  /\ ~GpuSpeedWrites[2].ok
  /\ Len(CpuSpeedWrites) = 1
  /\ Len(sensor_log) = 4

(***************************************************************************)
(* C13: every speed write happens inside the lease window.  A step that    *)
(* issues a speed write is taken while both leases are held and leaves     *)
(* them held; the acquire writes of both subsystems succeeded before it    *)
(* and no release write was issued before it.                              *)
(***************************************************************************)
Acquired(reg, val) ==
  \E i \in 1..Len(ec_log) :
     /\ ec_log[i].by = "acquire"
     /\ ec_log[i].reg = reg
     /\ ec_log[i].val = val
     /\ ec_log[i].ok

ReleaseIssued ==
  \E i \in 1..Len(ec_log) : ec_log[i].by = "release"

C13_SpeedWritesInsideLeaseWindow ==
  [][ SpeedWrites' # SpeedWrites =>
        /\ gpu_lease = "held" /\ gpu_lease' = "held"
        /\ cpu_lease = "held" /\ cpu_lease' = "held"
        /\ Acquired(GPU_CONTROL_REGISTER, GPU_ACQUIRE_CONTROL)
        /\ Acquired(CPU_CONTROL_REGISTER, CPU_ACQUIRE_CONTROL)
        /\ ~ReleaseIssued
    ]_vars

\* the two speed writes of the first cycle lie between the acquires and the
\* releases of a run that was then cancelled
C13_Witness ==
  /\ pc = "done"
  /\ outcome = "ok"
  /\ Len(ec_log) = 6
  /\ ec_log[2].by = "acquire" /\ ec_log[2].ok
  /\ ec_log[3].by = "speed" /\ ec_log[3].reg = GPU_SPEED_CONTROL_REGISTER
  /\ ec_log[4].by = "speed" /\ ec_log[4].reg = CPU_SPEED_CONTROL_REGISTER
  /\ ec_log[5].by = "release"

(***************************************************************************)
(* C14: ControlState tracks the hardware.  After every step each           *)
(* subsystem's last-applied step is the byte most recently written         *)
(* successfully to that subsystem's speed register, or 0x0 when no write   *)
(* to it has succeeded; a step whose speed write fails leaves both         *)
(* last-applied steps unchanged, and so does a step that maps to the       *)
(* last-applied step.                                                      *)
(***************************************************************************)
LastWrittenTo(reg) ==
  LET stored == SelectSeq(ec_log, LAMBDA w : w.reg = reg /\ w.ok)
  IN  IF stored = << >> THEN 0 ELSE stored[Len(stored)].val

C14_ControlStateTracksHardware ==
  [][ /\ last_gpu_fan_speed' = LastWrittenTo(GPU_SPEED_CONTROL_REGISTER)'
      /\ last_cpu_fan_speed' = LastWrittenTo(CPU_SPEED_CONTROL_REGISTER)'
      /\ (SpeedWrites' # SpeedWrites /\ ~ec_log'[Len(ec_log')].ok) =>
           UNCHANGED <<last_gpu_fan_speed, last_cpu_fan_speed>>
      /\ (pc = "apply_gpu" /\ next_gpu_fan_speed' = last_gpu_fan_speed) =>
           UNCHANGED <<last_gpu_fan_speed, last_cpu_fan_speed>>
      /\ (pc = "apply_cpu" /\ next_cpu_fan_speed' = last_cpu_fan_speed) =>
           UNCHANGED <<last_gpu_fan_speed, last_cpu_fan_speed>>
    ]_vars

(***************************************************************************)
(* C15: per subsystem, the writes to the control register are a prefix of  *)
(* (acquire, release): at most one acquire, at most one release, a release *)
(* only after the acquire write succeeded; and a run that has ended with   *)
(* the GPU acquired and the CPU acquire failed wrote the GPU release and   *)
(* no CPU release.                                                         *)
(***************************************************************************)
WritesTo(reg) == SelectSeq(ec_log, LAMBDA w : w.reg = reg)

IsLeasePrefix(writes, acquire, release) ==
  /\ Len(writes) <= 2
  /\ Len(writes) >= 1 => writes[1].val = acquire
  /\ Len(writes) = 2 => writes[1].ok /\ writes[2].val = release

C15_ControlWritesAreAcquireThenRelease ==
  /\ IsLeasePrefix(WritesTo(GPU_CONTROL_REGISTER),
                   GPU_ACQUIRE_CONTROL, GPU_RELEASE_CONTROL)
  /\ IsLeasePrefix(WritesTo(CPU_CONTROL_REGISTER),
                   CPU_ACQUIRE_CONTROL, CPU_RELEASE_CONTROL)
  /\ (/\ pc = "done"
      /\ Acquired(GPU_CONTROL_REGISTER, GPU_ACQUIRE_CONTROL)
      /\ AcquireFailed) =>
        /\ Len(GpuReleaseWrites) = 1
        /\ Len(WritesTo(CPU_CONTROL_REGISTER)) = 1

(***************************************************************************)
(* C16: while a subsystem's lease is held, the byte at its control         *)
(* register is its acquire command: no speed write overwrites a control    *)
(* register between the acquire write and the release write.               *)
(***************************************************************************)
C16_AcquireByteStaysWhileHeld ==
  /\ gpu_lease = "held" => ec[GPU_CONTROL_REGISTER] = GPU_ACQUIRE_CONTROL
  /\ cpu_lease = "held" => ec[CPU_CONTROL_REGISTER] = CPU_ACQUIRE_CONTROL

(***************************************************************************)
(* C17: the first cycle writes a speed to both subsystems, whatever the    *)
(* temperatures.  In cycle 1 the step that maps the GPU gain issues a GPU  *)
(* speed write and the step that maps the CPU gain issues a CPU speed      *)
(* write, the mapped step never being the initial 0x0; so a first cycle    *)
(* that reaches its sleep has written one speed to each subsystem.         *)
(***************************************************************************)
C17_FirstCycleWritesBoth ==
  [][ /\ (cycle = 1 /\ pc = "apply_gpu" /\ pc' # pc) =>
           /\ last_gpu_fan_speed = 0
           /\ next_gpu_fan_speed' # 0
           /\ IssuedSpeedWrite(GPU_SPEED_CONTROL_REGISTER, next_gpu_fan_speed')
      /\ (cycle = 1 /\ pc = "apply_cpu" /\ pc' # pc) =>
           /\ last_cpu_fan_speed = 0
           /\ next_cpu_fan_speed' # 0
           /\ IssuedSpeedWrite(CPU_SPEED_CONTROL_REGISTER, next_cpu_fan_speed')
      /\ (cycle' = 1 /\ pc' = "sleep") =>
           /\ Len(GpuSpeedWrites') = 1
           /\ Len(CpuSpeedWrites') = 1
    ]_vars

\* the first cycle at its sleep, with the lowest step written to both fans
C17_Witness ==
  /\ cycle = 1
  /\ pc = "sleep"
  /\ Len(GpuSpeedWrites) = 1 /\ GpuSpeedWrites[1].ok
  /\ Len(CpuSpeedWrites) = 1 /\ CpuSpeedWrites[1].ok
  /\ last_gpu_fan_speed = map_gain_to_gpu_fan_speed(F64(Rat(0, 1), 0))
  /\ last_cpu_fan_speed = map_gain_to_cpu_fan_speed(F64(Rat(0, 1), 0))

(***************************************************************************)
(* C18: in the loop the PID controller is never called on an empty         *)
(* history.  When the gains of cycle k are computed both histories hold    *)
(* min(k, 10) samples, so at least one; they hold a single sample, the     *)
(* case of the proportional-only branch, in cycle 1 and in no other.       *)
(***************************************************************************)
SamplesAtGains(history) ==
  /\ Len(iter(history)) = (IF cycle < 10 THEN cycle ELSE 10)
  /\ Len(iter(history)) >= 1
  /\ Len(iter(history)) < 2 <=> cycle = 1

C18_PidNeverOnEmptyHistory ==
  pc = "compute_gains" =>
     /\ cycle >= 1
     /\ SamplesAtGains(gpu_temperature_history)
     /\ SamplesAtGains(cpu_temperature_history)

\* the gains of cycle 11 are about to be computed from full histories
C18_Witness ==
  /\ pc = "compute_gains"
  /\ cycle = 11
  /\ Len(iter(gpu_temperature_history)) = 10
  /\ Len(iter(cpu_temperature_history)) = 10

(***************************************************************************)
(* C19: the leases are acquired GPU first, then CPU, and released in the   *)
(* reverse order.  The CPU acquire is written only after the GPU acquire   *)
(* succeeded; when the CPU lease was acquired, a GPU release is written    *)
(* only after the CPU release was written, and the GPU lease is never      *)
(* dropped while the CPU lease is held.                                    *)
(***************************************************************************)
IsWrite(w, by, reg, val) == w.by = by /\ w.reg = reg /\ w.val = val

C19_ReleaseInReverseOrder ==
  /\ \A i \in 1..Len(ec_log) :
       IsWrite(ec_log[i], "acquire", CPU_CONTROL_REGISTER, CPU_ACQUIRE_CONTROL)
         => \E j \in 1..(i - 1) :
               /\ IsWrite(ec_log[j], "acquire", GPU_CONTROL_REGISTER,
                          GPU_ACQUIRE_CONTROL)
               /\ ec_log[j].ok
  /\ \A i \in 1..Len(ec_log) :
       (/\ IsWrite(ec_log[i], "release", GPU_CONTROL_REGISTER,
                   GPU_RELEASE_CONTROL)
        /\ Acquired(CPU_CONTROL_REGISTER, CPU_ACQUIRE_CONTROL))
         => \E j \in 1..(i - 1) :
               IsWrite(ec_log[j], "release", CPU_CONTROL_REGISTER,
                       CPU_RELEASE_CONTROL)
  /\ pc = "drop_gpu" => cpu_lease # "held"

\* a run that panicked on a reading with both leases held, and released
\* the CPU lease, then the GPU lease
C19_Witness ==
  /\ pc = "done"
  /\ outcome = "panic"
  /\ Len(ec_log) >= 4
  /\ IsWrite(ec_log[Len(ec_log) - 1], "release", CPU_CONTROL_REGISTER,
             CPU_RELEASE_CONTROL)
  /\ IsWrite(ec_log[Len(ec_log)], "release", GPU_CONTROL_REGISTER,
             GPU_RELEASE_CONTROL)
  /\ ec_log[Len(ec_log) - 1].ok
  /\ ec_log[Len(ec_log)].ok

====
